---- MODULE Spec2Model ----
(***************************************************************************)
(* The storefront's product list page, its content wrapper and the CMS     *)
(* import command.                                                         *)
(*                                                                         *)
(* Spec          slot-interleaved pagination: calculatePageOffsets and     *)
(*               enrichResults of src/app/pages/product-list/index.jsx,    *)
(*               statement by statement, called by the ProductList renders *)
(* SpecFilter    toggleFilter of the same component                        *)
(* SpecWishlist  addItemToWishlist and removeItemFromWishlist              *)
(* SpecProps     ProductList.getProps and its external requests            *)
(* SpecImport    the import command of the CLI (src/unnamed/part_000)      *)
(* SpecWrapper   AmplienceWrapper (src/unnamed/part_001)                   *)
(* SpecSnap      the offset-snapping effect of ProductList                 *)
(*                                                                         *)
(* Each specification runs one part; the variables of the others rest.     *)
(* An optional JavaScript value is a set of at most one element.           *)
(* JavaScript arrays are 0-based, TLA+ sequences 1-based: the table entry  *)
(* pages[k] of the source is pages[k + 1] here.                            *)
(***************************************************************************)
EXTENDS Integers, Sequences, FiniteSets, TLC

\* ------------------------------------------------------------------------
\* Bounds of the model
\* ------------------------------------------------------------------------
MaxLimit == 3
MaxTotal == 3
MaxSlots == 2
MaxPosition == 2

VARIABLES
    \* ProductList: the paginated grid
    limit,                \* searchParams.limit, the page size
    productSearchResult,  \* the search response: [offset, total, hits]
    ampSlots,             \* useState(initialAmpSlots): {} when absent, {list} otherwise
    isMobile,             \* useBreakpointValue({base: true, md: false})
    pageOffsets,          \* useMemo(calculatePageOffsets(...))
    results,              \* enrichResults(...) of the last render
    \* ProductList: the refinement filters
    searchParams,         \* useSearchParams(): [offset, limit, refine]
    navigated,            \* the search parameters of the last navigate(): {} or {params}
    toggled,              \* the last toggleFilter call and the refine map it found
    \* ProductList: the wishlist handlers
    wishlistLoading,      \* useState([]): product ids
    mutations,            \* the handler calls awaiting their wishlist mutation
    toasts,               \* the notifications emitted, in order
    settled,              \* how each finished handler call ended
    \* ProductList.getProps
    request,              \* [categoryId, isSearch] of the location
    propsPc,              \* the await getProps stands at
    fetches,              \* per external request: idle, pending, resolved, rejected
    ampCategory,          \* the CMS record of the category: {} or {record}
    category,             \* the record of the category lookup: {} or {record}
    outcome,              \* how getProps ended: {} or {"props"}, {"HTTPNotFound"}, {"error"}
    \* The CLI import command
    context,              \* the parsed options
    step,                 \* external calls of the handler that have returned
    issued,               \* the external calls issued, in order
    stdout,               \* the lines printed
    failInvoked,          \* failFn's flag
    process,              \* running, rejected, done, exited
    \* AmplienceWrapper
    fetch,                \* prop: {} or {descriptor}
    content,              \* prop: {} or {content}
    components,           \* prop: {} or {registry}
    skeleton,             \* prop: given or not
    groups,               \* AmplienceContext groups
    fetchedContent,       \* useState(content)
    inflight,             \* fetchContent calls awaiting their response
    mounted,              \* the component is mounted
    effectRun,            \* number of the last effect run
    active,               \* the effect runs whose closure variable active is true
    rendered,             \* what the last render returned
    \* ProductList: the offset-snapping effect
    effectDue,            \* the effect runs after the commit of the last render
    snapRuns              \* the effect's runs since the last change of its
                          \* dependencies that was not its own navigation

listVars ==
    <<limit, productSearchResult, ampSlots, isMobile, pageOffsets, results>>

filterVars ==
    <<searchParams, navigated, toggled>>

wishlistVars ==
    <<wishlistLoading, mutations, toasts, settled>>

propsVars ==
    <<request, propsPc, fetches, ampCategory, category, outcome>>

importVars ==
    <<context, step, issued, stdout, failInvoked, process>>

wrapperVars ==
    <<fetch, content, components, skeleton, groups, fetchedContent, inflight,
      mounted, effectRun, active, rendered>>

snapVars ==
    <<effectDue, snapRuns>>

vars ==
    <<listVars, filterVars, wishlistVars, propsVars, importVars, wrapperVars,
      snapVars>>

\* ------------------------------------------------------------------------
\* Data
\* ------------------------------------------------------------------------

\* The <<rows, cols>> spans given to slots: one cell, two cells side by side,
\* two cells one above the other.
Spans ==
    {<<1, 1>>, <<1, 2>>, <<2, 1>>}

\* A grid slot as delivered by the CMS (gridItem entry); isAmplience is the
\* field enrichResults writes into the slot object.
Slot ==
    {[position |-> p, rows |-> s[1], cols |-> s[2], isAmplience |-> FALSE] :
         p \in 0..MaxPosition, s \in Spans}

SlotLists ==
    UNION {[1..n -> Slot] : n \in 0..MaxSlots}

\* A product hit of the search response; hit i is the i-th product of the
\* whole result set (0-based).
Hit(i) ==
    [productId |-> i, isAmplience |-> FALSE]

\* The hits a search at the given offset carries: n consecutive products.
Hits(offset, n) ==
    [i \in 1..n |-> Hit(offset + i - 1)]

\* ampSlots is optional in the source (prop may be undefined): an optional
\* value is a set with at most one element.
Truthy(opt) ==
    opt # {}

Value(opt) ==
    CHOOSE v \in opt : TRUE

Min(a, b) ==
    IF a < b THEN a ELSE b

Max(a, b) ==
    IF a > b THEN a ELSE b

\* ------------------------------------------------------------------------
\* calculatePageOffsets
\* ------------------------------------------------------------------------

pageNumber(index, pageSize) ==
    index \div pageSize

RECURSIVE pushPages_OffByOne(_, _, _, _)
\* The loop with the boundary of the page after the one being opened.
pushPages_OffByOne(pages, uptoBasePage, pageSize, offset) ==
    IF Len(pages) <= uptoBasePage
    THEN pushPages_OffByOne(Append(pages, (Len(pages) + 1) * pageSize - offset),
                            uptoBasePage, pageSize, offset)
    ELSE pages

RECURSIVE pushPages(_, _, _, _)
\* while (pages.length <= uptoBasePage) pages.push(pages.length * pageSize - offset)
pushPages(pages, uptoBasePage, pageSize, offset) ==
    IF Len(pages) <= uptoBasePage
    THEN pushPages(Append(pages, Len(pages) * pageSize - offset),
                   uptoBasePage, pageSize, offset)
    ELSE pages

\* st is the closure state [pages, processed, offset] of calculatePageOffsets.
fillPages(st, upTo, pageSize) ==
    [pages |-> pushPages(st.pages, pageNumber(upTo + st.offset, pageSize),
                         pageSize, st.offset),
     processed |-> upTo,
     offset |-> st.offset]

\* The shift without the fill that follows it.
skipContent_NoFill(st, sz, pageSize) ==
    [st EXCEPT !.offset = st.offset + sz]

skipContent(st, sz, pageSize) ==
    fillPages([st EXCEPT !.offset = st.offset + sz], st.processed, pageSize)

\* The slot size without the viewport test.
size_IgnoresViewport(slot, mobile) ==
    slot.cols * slot.rows

size(slot, mobile) ==
    IF mobile THEN 1 ELSE slot.cols * slot.rows

RECURSIVE walkSlots(_, _, _, _, _)
\* for (let i = 0; i < ampSlots.length; i++) { fillPages; skipContent }
walkSlots(st, slots, i, pageSize, mobile) ==
    IF i > Len(slots)
    THEN st
    ELSE walkSlots(skipContent(fillPages(st, slots[i].position, pageSize),
                               size(slots[i], mobile), pageSize),
                   slots, i + 1, pageSize, mobile)

calculatePageOffsets(pageSize, totalCount, slotsOpt, mobile) ==
    LET st0 == [pages |-> <<>>, processed |-> 0, offset |-> 0]
        st1 == IF Truthy(slotsOpt)
               THEN walkSlots(st0, Value(slotsOpt), 1, pageSize, mobile)
               ELSE st0
    IN  fillPages(st1, totalCount, pageSize).pages

\* ------------------------------------------------------------------------
\* enrichResults
\* ------------------------------------------------------------------------

\* Array.prototype.findIndex, 0-based, -1 when no element satisfies the test
\* (pageIndex) => pageIndex > offset.
findIndex(pages, offset) ==
    IF \E i \in 1..Len(pages) : pages[i] > offset
    THEN (CHOOSE i \in 1..Len(pages) :
              /\ pages[i] > offset
              /\ \A j \in 1..(i - 1) : ~(pages[j] > offset)) - 1
    ELSE -1

\* let pageId = pages.findIndex(...) - 1; if (pageId == -2) pageId = pages.length - 1
pageIdOf(pages, offset) ==
    LET pageId == findIndex(pages, offset) - 1
    IN  IF pageId = -2 THEN Len(pages) - 1 ELSE pageId

\* The count without the "?? total" fallback: past the last entry the
\* difference is NaN.
sfccCount_NoTotalFallback(pages, pageId, total) ==
    IF pageId < 0 \/ pageId + 1 >= Len(pages)
    THEN 0
    ELSE pages[pageId + 2] - pages[pageId + 1]

\* (pages[pageId + 1] ?? total) - pages[pageId]; an index outside the array
\* reads undefined, and undefined in the subtraction gives NaN, which slice
\* treats as 0.
sfccCount(pages, pageId, total) ==
    IF pageId < 0 \/ pageId >= Len(pages)
    THEN 0
    ELSE (IF pageId + 1 < Len(pages) THEN pages[pageId + 2] ELSE total)
             - pages[pageId + 1]

\* Array.prototype.slice(0, end)
slice(hits, end) ==
    LET e == IF end < 0 THEN Max(Len(hits) + end, 0) ELSE Min(end, Len(hits))
    IN  SubSeq(hits, 1, e)

\* Array.prototype.splice(start, 0, item)
splice(items, start, item) ==
    LET s == IF start < 0 THEN Max(Len(items) + start, 0)
             ELSE Min(start, Len(items))
    IN  SubSeq(items, 1, s) \o <<item>> \o SubSeq(items, s + 1, Len(items))

sizeInGrid(slot, mobile) ==
    IF mobile THEN 1 ELSE slot.rows * slot.cols

\* The mark together with a write that collapses the slot to one column.
markSlot_CollapsesSpan(slot) ==
    [slot EXCEPT !.isAmplience = TRUE, !.cols = 1]

\* slot.isAmplience = true
markSlot(slot) ==
    [slot EXCEPT !.isAmplience = TRUE]

RECURSIVE placeSlots(_, _, _, _, _)
\* for (let slot of ampSlots) { continue / break / splice }
\* acc is [items, reservedSpaces, slots]; slots carries the writes to the
\* slot objects.
placeSlots(acc, i, pageBase, pageSize, mobile) ==
    IF i > Len(acc.slots)
    THEN acc
    ELSE LET slot == acc.slots[i]
             pos == slot.position
         IN  IF pos < pageBase
             THEN placeSlots(acc, i + 1, pageBase, pageSize, mobile)
             ELSE IF pos >= pageBase + pageSize
             THEN acc
             ELSE placeSlots(
                      [items |-> splice(acc.items,
                                        pos - pageBase - acc.reservedSpaces,
                                        markSlot(slot)),
                       reservedSpaces |-> acc.reservedSpaces
                                              + sizeInGrid(slot, mobile) - 1,
                       slots |-> [acc.slots EXCEPT ![i] = markSlot(slot)]],
                      i + 1, pageBase, pageSize, mobile)

\* Returns [items, slots]: items is the returned value ({} for undefined),
\* slots the slot list as the call leaves it.
enrichResults(psr, pageSize, slotsOpt, pages, mobile) ==
    IF Truthy(psr.hits)
    THEN LET pageId == pageIdOf(pages, psr.offset)
             pageBase == pageId * pageSize
             items == slice(Value(psr.hits), sfccCount(pages, pageId, psr.total))
         IN  IF Truthy(slotsOpt)
             THEN LET acc == placeSlots([items |-> items, reservedSpaces |-> 0,
                                         slots |-> Value(slotsOpt)],
                                        1, pageBase, pageSize, mobile)
                  IN  [items |-> {acc.items}, slots |-> {acc.slots}]
             ELSE [items |-> {items}, slots |-> slotsOpt]
    ELSE [items |-> psr.hits, slots |-> slotsOpt]

\* ------------------------------------------------------------------------
\* Parts of the program at rest
\* ------------------------------------------------------------------------

\* Each specification below runs one part of the program; the variables of
\* the other parts stay at these values.
ListIdle ==
    /\ limit = 1
    /\ productSearchResult = [offset |-> 0, total |-> 0, hits |-> {}]
    /\ ampSlots = {}
    /\ isMobile = FALSE
    /\ pageOffsets = <<0>>
    /\ results = {}

FilterIdle ==
    /\ searchParams = [offset |-> 0, limit |-> 1, refine |-> <<>>]
    /\ navigated = {}
    /\ toggled = {}

WishlistIdle ==
    /\ wishlistLoading = <<>>
    /\ mutations = {}
    /\ toasts = <<>>
    /\ settled = <<>>

PropsIdle ==
    /\ request = [categoryId |-> {}, isSearch |-> FALSE]
    /\ propsPc = "idle"
    /\ fetches = <<>>
    /\ ampCategory = {}
    /\ category = {}
    /\ outcome = {}

ImportIdle ==
    /\ context = <<>>
    /\ step = 0
    /\ issued = <<>>
    /\ stdout = <<>>
    /\ failInvoked = FALSE
    /\ process = "idle"

WrapperIdle ==
    /\ fetch = {}
    /\ content = {}
    /\ components = {}
    /\ skeleton = FALSE
    /\ groups = 0
    /\ fetchedContent = {}
    /\ inflight = {}
    /\ mounted = FALSE
    /\ effectRun = 0
    /\ active = {}
    /\ rendered = {}

SnapIdle ==
    /\ effectDue = FALSE
    /\ snapRuns = <<>>

\* ------------------------------------------------------------------------
\* The ProductList component
\* ------------------------------------------------------------------------

\* Responses of the search capability for a fetch at the given offset with
\* lim as page size: the products from the offset on, at most lim of them;
\* when there is none the hits field is empty or left out.
SearchResponses(offset, total, lim) ==
    {[offset |-> offset, total |-> total,
      hits |-> {Hits(offset, Min(lim, total - offset))}]}
    \cup (IF offset >= total
          THEN {[offset |-> offset, total |-> total, hits |-> {}]}
          ELSE {})

\* First render of ProductList with the props of getProps.
Init ==
    /\ limit \in 1..MaxLimit
    /\ isMobile \in BOOLEAN
    /\ \E total \in 0..MaxTotal, slotsOpt \in {{}} \cup {{l} : l \in SlotLists} :
        \E psr \in SearchResponses(0, total, limit) :
            LET pages == calculatePageOffsets(limit, total, slotsOpt, isMobile)
                out == enrichResults(psr, limit, slotsOpt, pages, isMobile)
            IN  /\ productSearchResult = psr
                /\ pageOffsets = pages
                /\ results = out.items
                /\ ampSlots = out.slots
    /\ FilterIdle /\ WishlistIdle /\ PropsIdle /\ ImportIdle /\ WrapperIdle
    /\ SnapIdle

\* Navigation to another offset of the same search: new props, the component
\* renders again; the dependencies of useMemo are unchanged.
Navigate ==
    \E offset \in 0..productSearchResult.total :
        \E psr \in SearchResponses(offset, productSearchResult.total, limit) :
            LET out == enrichResults(psr, limit, ampSlots, pageOffsets, isMobile)
            IN  /\ psr # productSearchResult
                /\ productSearchResult' = psr
                /\ results' = out.items
                /\ ampSlots' = out.slots
                /\ UNCHANGED <<limit, isMobile, pageOffsets>>
                /\ UNCHANGED <<filterVars, wishlistVars, propsVars, importVars,
                               wrapperVars>>
                /\ UNCHANGED snapVars

\* The viewport crosses the md breakpoint: isMobile flips, useMemo calls
\* calculatePageOffsets again, and the render enriches the current response.
BreakpointChange ==
    LET mobile == ~isMobile
        pages == calculatePageOffsets(limit, productSearchResult.total,
                                      ampSlots, mobile)
        out == enrichResults(productSearchResult, limit, ampSlots, pages, mobile)
    IN  /\ isMobile' = mobile
        /\ pageOffsets' = pages
        /\ results' = out.items
        /\ ampSlots' = out.slots
        /\ UNCHANGED <<limit, productSearchResult>>
        /\ UNCHANGED <<filterVars, wishlistVars, propsVars, importVars,
                       wrapperVars>>
        /\ UNCHANGED snapVars

Next ==
    \/ Navigate
    \/ BreakpointChange

Spec ==
    Init /\ [][Next]_vars

\* ------------------------------------------------------------------------
\* ProductList: toggleFilter
\* ------------------------------------------------------------------------

MaxValues == 3

RefineAttributes ==
    {"c_refinementColor", "c_size"}

RefineValues ==
    {"red", "blue"}

\* A JavaScript string holding values joined by '|' ('red|blue'), or an
\* array of values; parts are the values in order.
StringOf(parts) ==
    [kind |-> "string", parts |-> parts]

ArrayOf(parts) ==
    [kind |-> "array", parts |-> parts]

\* The values a parsed URL gives an attribute: a non-empty string.
ParsedValues ==
    {StringOf(<<v>>) : v \in RefineValues}
        \cup {StringOf(<<p[1], p[2]>>) :
                  p \in {q \in RefineValues \X RefineValues : q[1] # q[2]}}

\* searchParams.refine of a parsed URL: per attribute nothing or a string.
ParsedRefines ==
    [RefineAttributes -> {{}} \cup {{x} : x \in ParsedValues}]

\* values.filter((v) => v !== value)
filter(values, value) ==
    SelectSeq(values, LAMBDA v : v # value)

\* The single-select branch appending like the multi-select one.
refineOne_Appends(refine, value, attributeId, selected) ==
    IF selected
    THEN [refine EXCEPT ![attributeId] = {}]
    ELSE [refine EXCEPT ![attributeId] =
              {StringOf((IF Truthy(refine[attributeId])
                         THEN Value(refine[attributeId]).parts
                         ELSE <<>>) \o <<value>>)}]

\* delete refine[attributeId]; if (!selected) refine[attributeId] = value.value
refineOne(refine, value, attributeId, selected) ==
    IF selected
    THEN [refine EXCEPT ![attributeId] = {}]
    ELSE [refine EXCEPT ![attributeId] = {StringOf(<<value>>)}]

\* The allowMultiple branch: the values as an array (a string is split at
\* '|'), the value pushed or filtered out, the attribute deleted when no
\* value is left.
refineMany(refine, value, attributeId, selected) ==
    LET attributeValue == IF Truthy(refine[attributeId])
                          THEN Value(refine[attributeId])
                          ELSE ArrayOf(<<>>)
        values == IF selected
                  THEN filter(attributeValue.parts, value)
                  ELSE Append(attributeValue.parts, value)
    IN  IF Len(values) = 0
        THEN [refine EXCEPT ![attributeId] = {}]
        ELSE [refine EXCEPT ![attributeId] = {ArrayOf(values)}]

\* The refine map toggleFilter leaves behind; allowMultiple defaults to true
\* at the call sites that pass three arguments.
toggleRefine(refine, value, attributeId, selected, allowMultiple) ==
    IF ~allowMultiple
    THEN refineOne(refine, value, attributeId, selected)
    ELSE refineMany(refine, value, attributeId, selected)

\* The filter panel of a page whose URL has just been parsed.
FilterInit ==
    /\ \E offset \in 0..1, lim \in 1..2, refine \in ParsedRefines :
           searchParams = [offset |-> offset, limit |-> lim, refine |-> refine]
    /\ navigated = {}
    /\ toggled = {}
    /\ ListIdle /\ WishlistIdle /\ PropsIdle /\ ImportIdle /\ WrapperIdle
    /\ SnapIdle

\* searchParamsCopy = {...searchParams} is a shallow copy: refine is the
\* object searchParams holds, so the writes to it reach searchParams too.
\* The copy loses its offset and is handed to stringifySearchParams for the
\* navigation.
toggleFilter ==
    \E value \in RefineValues, attributeId \in RefineAttributes,
       selected \in BOOLEAN, allowMultiple \in BOOLEAN :
        LET refine == toggleRefine(searchParams.refine, value, attributeId,
                                   selected, allowMultiple)
        IN  /\ \A a \in RefineAttributes :
                   Truthy(refine[a]) => Len(Value(refine[a]).parts) <= MaxValues
            /\ searchParams' = [searchParams EXCEPT !.refine = refine]
            /\ navigated' = {[limit |-> searchParams.limit, refine |-> refine]}
            /\ toggled' = {[value |-> value, attributeId |-> attributeId,
                            selected |-> selected,
                            allowMultiple |-> allowMultiple,
                            before |-> searchParams.refine]}
            /\ UNCHANGED <<listVars, wishlistVars, propsVars, importVars,
                           wrapperVars>>
            /\ UNCHANGED snapVars

FilterNext ==
    toggleFilter

SpecFilter ==
    FilterInit /\ [][FilterNext]_vars

\* ------------------------------------------------------------------------
\* ProductList: the wishlist handlers
\* ------------------------------------------------------------------------

MaxCalls == 3

ProductIds ==
    {"p1", "p2"}

\* The wishlist mutation of each handler.
Handlers ==
    {"addItemToWishlist", "removeItemFromWishlist"}

\* Handler calls made so far; a call is named by its number.
Started ==
    Cardinality(mutations) + Len(settled)

\* The continuation without the catch clause: a rejection leaves the
\* handler.
afterMutation_NoCatch(handler, result) ==
    IF result = "resolved"
    THEN [toast |-> <<[status |-> "success",
                       title |-> IF handler = "addItemToWishlist"
                                 THEN "TOAST_MESSAGE_ADDED_TO_WISHLIST"
                                 ELSE "TOAST_MESSAGE_REMOVED_FROM_WISHLIST"]>>,
          handler |-> "returned"]
    ELSE [toast |-> <<>>, handler |-> "rejected"]

\* What follows the await in try / catch: a success toast when the mutation
\* resolved, an error toast from the catch clause when it rejected; the
\* handler's promise is resolved in both cases.
afterMutation(handler, result) ==
    IF result = "resolved"
    THEN [toast |-> <<[status |-> "success",
                       title |-> IF handler = "addItemToWishlist"
                                 THEN "TOAST_MESSAGE_ADDED_TO_WISHLIST"
                                 ELSE "TOAST_MESSAGE_REMOVED_FROM_WISHLIST"]>>,
          handler |-> "returned"]
    ELSE [toast |-> <<[status |-> "error", title |-> "API_ERROR_MESSAGE"]>>,
          handler |-> "returned"]

\* wishlistLoading.filter((id) => id !== product.productId)
withoutProduct(loading, productId) ==
    SelectSeq(loading, LAMBDA id : id # productId)

WishlistInit ==
    /\ wishlistLoading = <<>>
    /\ mutations = {}
    /\ toasts = <<>>
    /\ settled = <<>>
    /\ ListIdle /\ FilterIdle /\ PropsIdle /\ ImportIdle /\ WrapperIdle
    /\ SnapIdle

\* The handler up to its await: setWishlistLoading([...wishlistLoading, id])
\* with the wishlistLoading of the render that created the handler, then the
\* mutation is sent. The call keeps that wishlistLoading for its finally.
startHandler(handler, productId) ==
    /\ Started < MaxCalls
    /\ wishlistLoading' = Append(wishlistLoading, productId)
    /\ mutations' = mutations \cup
           {[call |-> Started + 1, handler |-> handler, productId |-> productId,
             wishlistLoading |-> wishlistLoading]}
    /\ UNCHANGED <<toasts, settled>>
    /\ UNCHANGED <<listVars, filterVars, propsVars, importVars, wrapperVars>>
    /\ UNCHANGED snapVars

addItemToWishlist ==
    \E productId \in ProductIds : startHandler("addItemToWishlist", productId)

removeItemFromWishlist ==
    \E productId \in ProductIds :
        startHandler("removeItemFromWishlist", productId)

\* The mutation of a call settles and the handler runs to its end: the toast
\* of try or catch, then finally with the wishlistLoading the call kept.
mutationSettles ==
    \E m \in mutations, result \in {"resolved", "rejected"} :
        LET after == afterMutation(m.handler, result)
        IN  /\ toasts' = toasts \o [i \in 1..Len(after.toast) |->
                                        [call |-> m.call,
                                         status |-> after.toast[i].status,
                                         title |-> after.toast[i].title]]
            /\ wishlistLoading' = withoutProduct(m.wishlistLoading, m.productId)
            /\ mutations' = mutations \ {m}
            /\ settled' = Append(settled, [call |-> m.call,
                                           handler |-> m.handler,
                                           productId |-> m.productId,
                                           mutation |-> result,
                                           ended |-> after.handler])
            /\ UNCHANGED <<listVars, filterVars, propsVars, importVars,
                           wrapperVars>>
            /\ UNCHANGED snapVars

WishlistNext ==
    \/ addItemToWishlist
    \/ removeItemFromWishlist
    \/ mutationSettles

SpecWishlist ==
    WishlistInit /\ [][WishlistNext]_vars

\* ------------------------------------------------------------------------
\* ProductList.getProps
\* ------------------------------------------------------------------------

\* The external requests of getProps: the CMS record of the category, the
\* CMS content its topContent names, the category lookup, the product search.
Requests ==
    {"ampCategory", "ampTopContent", "getCategory", "productSearch"}

\* What fetchContent([{key}]).pop() gives: nothing (an empty answer), a
\* CONTENT_NOT_FOUND record, or the category's record, with or without
\* topContent and gridItem.
AmpCategories ==
    {{}}
        \cup {{[type |-> "CONTENT_NOT_FOUND", topContent |-> FALSE,
                gridItem |-> FALSE]}}
        \cup {{[type |-> "CONTENT", topContent |-> t, gridItem |-> g]} :
                  t \in BOOLEAN, g \in BOOLEAN}

\* The type of the record getCategory answers with, as path segments: none
\* for a category, an error type otherwise.
CategoryTypes ==
    {<<>>,
     <<"errors", "category-not-found">>,
     <<"errors", "bad-request">>}

\* type?.endsWith('category-not-found')
endsWith(type, suffix) ==
    Len(type) > 0 /\ type[Len(type)] = suffix

\* The test on any error type.
notFound_AnyErrorType(categoryOpt) ==
    \E c \in categoryOpt : Len(c.type) > 0

\* category?.type?.endsWith('category-not-found'); category is undefined
\* for a search request.
notFound(categoryOpt) ==
    \E c \in categoryOpt : endsWith(c.type, "category-not-found")

PropsInit ==
    /\ request \in [categoryId : {{}, {"mens"}}, isSearch : BOOLEAN]
    /\ propsPc = "start"
    /\ fetches = [r \in Requests |-> "idle"]
    /\ ampCategory = {}
    /\ category = {}
    /\ outcome = {}
    /\ ListIdle /\ FilterIdle /\ WishlistIdle /\ ImportIdle /\ WrapperIdle
    /\ SnapIdle

\* Promise.all([isSearch ? Promise.resolve() : getCategory(...),
\* productSearch(...)]): the requests are sent.
sendBoth(f) ==
    [f EXCEPT !["getCategory"] = IF request.isSearch THEN "idle" ELSE "pending",
              !["productSearch"] = "pending"]

\* getProps up to its first await: the early return of /search without a
\* query, or the CMS fetch of the category's record.
getProps ==
    /\ propsPc = "start"
    /\ IF ~Truthy(request.categoryId) /\ ~request.isSearch
       THEN /\ outcome' = {"props"}
            /\ propsPc' = "ended"
            /\ UNCHANGED fetches
       ELSE /\ fetches' = [fetches EXCEPT !["ampCategory"] = "pending"]
            /\ propsPc' = "awaitAmpCategory"
            /\ UNCHANGED outcome
    /\ UNCHANGED <<request, ampCategory, category>>
    /\ UNCHANGED <<listVars, filterVars, wishlistVars, importVars, wrapperVars>>
    /\ UNCHANGED snapVars

\* The CMS answers (or the request fails) and getProps runs to its next
\* await: the fetch of the top content when the record names some, else the
\* read of ampCategory.type, which throws on a missing record, and the
\* category lookup and the product search.
ampCategorySettles ==
    /\ propsPc = "awaitAmpCategory"
    /\ \/ /\ fetches' = [fetches EXCEPT !["ampCategory"] = "rejected"]
          /\ outcome' = {"error"}
          /\ propsPc' = "ended"
          /\ UNCHANGED ampCategory
       \/ \E a \in AmpCategories :
              /\ ampCategory' = a
              /\ IF \E rec \in a : rec.topContent
                 THEN /\ fetches' = [fetches EXCEPT
                                         !["ampCategory"] = "resolved",
                                         !["ampTopContent"] = "pending"]
                      /\ propsPc' = "awaitAmpTopContent"
                      /\ UNCHANGED outcome
                 ELSE IF a = {}
                 THEN /\ fetches' = [fetches EXCEPT
                                         !["ampCategory"] = "resolved"]
                      /\ outcome' = {"error"}
                      /\ propsPc' = "ended"
                 ELSE /\ fetches' = sendBoth([fetches EXCEPT
                                                  !["ampCategory"] = "resolved"])
                      /\ propsPc' = "awaitAll"
                      /\ UNCHANGED outcome
    /\ UNCHANGED <<request, category>>
    /\ UNCHANGED <<listVars, filterVars, wishlistVars, importVars, wrapperVars>>
    /\ UNCHANGED snapVars

\* The top content arrives (or its request fails); getProps goes on to the
\* category lookup and the product search.
ampTopContentSettles ==
    /\ propsPc = "awaitAmpTopContent"
    /\ \/ /\ fetches' = [fetches EXCEPT !["ampTopContent"] = "rejected"]
          /\ outcome' = {"error"}
          /\ propsPc' = "ended"
       \/ /\ fetches' = sendBoth([fetches EXCEPT
                                      !["ampTopContent"] = "resolved"])
          /\ propsPc' = "awaitAll"
          /\ UNCHANGED outcome
    /\ UNCHANGED <<request, ampCategory, category>>
    /\ UNCHANGED <<listVars, filterVars, wishlistVars, importVars, wrapperVars>>
    /\ UNCHANGED snapVars

\* What getProps does when a request of Promise.all has settled: the first
\* rejection rejects the whole, the last answer lets getProps run to its
\* end, throwing HTTPNotFound or returning the props.
afterAll(f, categoryOpt) ==
    IF \E r \in {"getCategory", "productSearch"} : f[r] = "rejected"
    THEN {"error"}
    ELSE IF \E r \in {"getCategory", "productSearch"} : f[r] = "pending"
    THEN {}
    ELSE IF notFound(categoryOpt) THEN {"HTTPNotFound"} ELSE {"props"}

\* getCategory answers with a record, or fails.
getCategorySettles ==
    /\ propsPc = "awaitAll"
    /\ fetches["getCategory"] = "pending"
    /\ \E f \in {[fetches EXCEPT !["getCategory"] = st] :
                      st \in {"resolved", "rejected"}} :
           \E c \in IF f["getCategory"] = "resolved"
                     THEN {{[type |-> t]} : t \in CategoryTypes}
                     ELSE {{}} :
               /\ fetches' = f
               /\ category' = c
               /\ outcome' = afterAll(f, c)
               /\ propsPc' = IF afterAll(f, c) = {} THEN "awaitAll" ELSE "ended"
    /\ UNCHANGED <<request, ampCategory>>
    /\ UNCHANGED <<listVars, filterVars, wishlistVars, importVars, wrapperVars>>
    /\ UNCHANGED snapVars

\* productSearch answers, or fails.
productSearchSettles ==
    /\ propsPc = "awaitAll"
    /\ fetches["productSearch"] = "pending"
    /\ \E f \in {[fetches EXCEPT !["productSearch"] = st] :
                      st \in {"resolved", "rejected"}} :
           /\ fetches' = f
           /\ outcome' = afterAll(f, category)
           /\ propsPc' = IF afterAll(f, category) = {} THEN "awaitAll"
                         ELSE "ended"
    /\ UNCHANGED <<request, ampCategory, category>>
    /\ UNCHANGED <<listVars, filterVars, wishlistVars, importVars, wrapperVars>>
    /\ UNCHANGED snapVars

PropsNext ==
    \/ getProps
    \/ ampCategorySettles
    \/ ampTopContentSettles
    \/ getCategorySettles
    \/ productSearchSettles

SpecProps ==
    PropsInit /\ [][PropsNext]_vars

\* ------------------------------------------------------------------------
\* The CLI import command
\* ------------------------------------------------------------------------

AutomationDirs ==
    {"./amplience-automation/automation-files", "./files"}

RepoIds ==
    {"repoA", "repoB"}

\* The options of an invocation that passes yargs' validation.
Contexts ==
    [automationDir : AutomationDirs, contentRepoId : RepoIds,
     slotsRepoId : RepoIds]

\* The command lines with the imports of content types and of schemas
\* exchanged.
Commands_TypesBeforeSchemas(ctx) ==
    <<[tool |-> "configure", path |-> "", baseRepo |-> ""],
      [tool |-> "settings import",
       path |-> <<ctx.automationDir, "settings">>, baseRepo |-> ""],
      [tool |-> "content-type import",
       path |-> <<ctx.automationDir, "type">>, baseRepo |-> ""],
      [tool |-> "content-type-schema import",
       path |-> <<ctx.automationDir, "schema">>, baseRepo |-> ""],
      [tool |-> "content-item import",
       path |-> <<ctx.automationDir, "content/content">>,
       baseRepo |-> ctx.contentRepoId],
      [tool |-> "content-item import",
       path |-> <<ctx.automationDir, "content/slots">>,
       baseRepo |-> ctx.slotsRepoId],
      [tool |-> "event import",
       path |-> <<ctx.automationDir, "events">>, baseRepo |-> ""]>>

\* The dc-cli command lines of the handler, in the order of its statements.
Commands(ctx) ==
    <<[tool |-> "configure", path |-> "", baseRepo |-> ""],
      [tool |-> "settings import",
       path |-> <<ctx.automationDir, "settings">>, baseRepo |-> ""],
      [tool |-> "content-type-schema import",
       path |-> <<ctx.automationDir, "schema">>, baseRepo |-> ""],
      [tool |-> "content-type import",
       path |-> <<ctx.automationDir, "type">>, baseRepo |-> ""],
      [tool |-> "content-item import",
       path |-> <<ctx.automationDir, "content/content">>,
       baseRepo |-> ctx.contentRepoId],
      [tool |-> "content-item import",
       path |-> <<ctx.automationDir, "content/slots">>,
       baseRepo |-> ctx.slotsRepoId],
      [tool |-> "event import",
       path |-> <<ctx.automationDir, "events">>, baseRepo |-> ""]>>

\* The console.log line before each call.
ProgressLines ==
    <<"configuring dc-cli...", "importing settings...",
      "importing content type schemas...", "importing content types...",
      "importing content...", "importing slots...", "importing events...">>

\* The exit statuses an external call ends with: zero or not.
ExitStatuses ==
    {0, 1}

\* A call that reports success whatever the status.
returned_IgnoresStatus(status) ==
    "running"

\* execSync returns on status 0 and throws otherwise; the throw leaves the
\* async handler, whose promise is rejected.
returned(status) ==
    IF status = 0 THEN "running" ELSE "rejected"

\* The command line is parsed: the options pass validation and the handler
\* starts, or they do not and yargs reports to failFn.
ImportInit ==
    /\ context \in Contexts
    /\ step = 0
    /\ issued = <<>>
    /\ stdout = <<>>
    /\ failInvoked = FALSE
    /\ process \in {"running", "invalid"}
    /\ ListIdle /\ FilterIdle /\ WishlistIdle /\ PropsIdle /\ WrapperIdle
    /\ SnapIdle

\* console.log(...); childProcess.execSync(...): the line is printed and the
\* external process started; the handler blocks until it ends.
execSync ==
    /\ process = "running"
    /\ step < Len(Commands(context))
    /\ stdout' = Append(stdout, ProgressLines[step + 1])
    /\ issued' = Append(issued, [command |-> Commands(context)[step + 1],
                                 status |-> {}])
    /\ process' = "blocked"
    /\ UNCHANGED <<context, step, failInvoked>>
    /\ UNCHANGED <<listVars, filterVars, wishlistVars, propsVars, wrapperVars>>
    /\ UNCHANGED snapVars

\* The external process ends with an exit status.
execSyncReturn ==
    /\ process = "blocked"
    /\ \E status \in ExitStatuses :
           /\ issued' = [issued EXCEPT ![Len(issued)].status = {status}]
           /\ process' = returned(status)
           /\ step' = IF returned(status) = "running" THEN step + 1 ELSE step
    /\ UNCHANGED <<context, stdout, failInvoked>>
    /\ UNCHANGED <<listVars, filterVars, wishlistVars, propsVars, wrapperVars>>
    /\ UNCHANGED snapVars

\* console.log(`done!`): the handler's promise is resolved.
done ==
    /\ process = "running"
    /\ step = Len(Commands(context))
    /\ stdout' = Append(stdout, "done!")
    /\ process' = "resolved"
    /\ UNCHANGED <<context, step, issued, failInvoked>>
    /\ UNCHANGED <<listVars, filterVars, wishlistVars, propsVars, wrapperVars>>
    /\ UNCHANGED snapVars

\* failFn(msg, err) as yargs calls it: with a message and no error after a
\* failed validation (the help is shown), with the error after the handler's
\* promise was rejected (the error is printed and the process exits with
\* status 0).
failFn ==
    /\ process \in {"invalid", "rejected"}
    /\ ~failInvoked
    /\ failInvoked' = TRUE
    /\ IF process = "invalid"
       THEN /\ stdout' = Append(stdout, "help")
            /\ process' = "resolved"
       ELSE /\ stdout' = Append(stdout, "err")
            /\ process' = "exit 0"
    /\ UNCHANGED <<context, step, issued>>
    /\ UNCHANGED <<listVars, filterVars, wishlistVars, propsVars, wrapperVars>>
    /\ UNCHANGED snapVars

\* The rejection reaches no handler: node ends the process with a non-zero
\* status.
unhandledRejection ==
    /\ process = "rejected"
    /\ process' = "exit 1"
    /\ UNCHANGED <<context, step, issued, stdout, failInvoked>>
    /\ UNCHANGED <<listVars, filterVars, wishlistVars, propsVars, wrapperVars>>
    /\ UNCHANGED snapVars

\* Nothing is left to run: the process ends.
exit ==
    /\ process = "resolved"
    /\ process' = "exit 0"
    /\ UNCHANGED <<context, step, issued, stdout, failInvoked>>
    /\ UNCHANGED <<listVars, filterVars, wishlistVars, propsVars, wrapperVars>>
    /\ UNCHANGED snapVars

ImportNext ==
    \/ execSync
    \/ execSyncReturn
    \/ done
    \/ failFn
    \/ unhandledRejection
    \/ exit

\* The event loop runs what is ready: a rejected promise is dealt with and a
\* process with nothing left ends. An external call may run for ever.
SpecImport ==
    /\ ImportInit
    /\ [][ImportNext]_vars
    /\ WF_vars(failFn \/ unhandledRejection)
    /\ WF_vars(exit)

\* ------------------------------------------------------------------------
\* AmplienceWrapper
\* ------------------------------------------------------------------------

MaxRuns == 3

\* The built-in registry: schema identifier to rendering component.
componentsMapping ==
    ("https://sfcc.com/components/hero" :> "Hero")
        @@ ("https://sfcc.com/components/section" :> "Section")
        @@ ("https://sfcc.com/components/curated-product" :> "CuratedProductList")
        @@ ("https://sfcc.com/components/card-enhanced" :> "CardEnhanced")
        @@ ("https://sfcc.com/components/personalised-component"
                :> "PersonalisedComponent")
        @@ ("https://sfcc.com/components/personalised-container"
                :> "PersonalisedContainer")
        @@ ("https://sfcc.com/slots/flexible-list" :> "flexibleListSlot")
        @@ ("https://sfcc.com/slots/personalised-slot" :> "PersonalisedComponent")
        @@ ("https://sfcc.com/site/navigation/root" :> "Blank")
        @@ ("https://sfcc.com/site/navigation/external" :> "Blank")
        @@ ("https://sfcc.com/site/navigation/internal" :> "Blank")
        @@ ("https://sfcc.com/site/navigation/content-page" :> "Blank")
        @@ ("https://sfcc.com/site/navigation/category" :> "Blank")
        @@ ("https://sfcc.com/site/navigation/group" :> "Blank")

\* Registries a caller passes as components: the in-grid registry of the
\* product list, which replaces the hero, and one with a schema of its own.
CallerRegistries ==
    {("https://sfcc.com/components/hero" :> "GridItemHero"),
     ("https://example.com/components/banner" :> "Banner")}

\* The fetch descriptors a caller passes: by id or by key; the CMS has
\* nothing under the last one.
Descriptors ==
    {[id |-> {"hero-1"}, key |-> {}],
     [id |-> {}, key |-> {"category/mens"}],
     [id |-> {"gone"}, key |-> {}]}

\* A content record: its _meta.schema (none when the record has no _meta)
\* and where the object comes from, the content prop or the response to the
\* fetch of an effect run.
Content(schema, origin) ==
    [schema |-> schema, origin |-> origin]

\* The content objects a caller passes as content.
PropContents ==
    {Content({"https://example.com/components/banner"}, "prop"),
     Content({"https://example.com/components/unknown"}, "prop"),
     Content({}, "prop")}

\* (await client.fetchContent([fetch], {locale})).pop() for the fetch of an
\* effect run: the record the CMS holds, or undefined for an empty answer.
Response(f) ==
    IF f.descriptor.id = {"hero-1"}
    THEN {Content({"https://sfcc.com/components/hero"}, <<f.run, f.descriptor>>)}
    ELSE IF f.descriptor.key = {"category/mens"}
    THEN {Content({"https://sfcc.com/slots/flexible-list"},
                  <<f.run, f.descriptor>>)}
    ELSE {}

\* The merge with the built-in entries last: they win.
mapping_BuiltInWins(componentsOpt) ==
    IF Truthy(componentsOpt)
    THEN componentsMapping @@ Value(componentsOpt)
    ELSE componentsMapping

\* components ? {...componentsMapping, ...components} : componentsMapping
mapping(componentsOpt) ==
    IF Truthy(componentsOpt)
    THEN Value(componentsOpt) @@ componentsMapping
    ELSE componentsMapping

\* The element the wrapper returns: the registry component of the content's
\* schema or the raw JSON of the content, inside a Skeleton (loaded once
\* there is content) when the skeleton prop is given.
render(componentsOpt, skeletonGiven, fetchedOpt) ==
    LET schema == UNION {c.schema : c \in fetchedOpt}
        known == \E sc \in schema : sc \in DOMAIN mapping(componentsOpt)
    IN  [result |-> IF known THEN "Component" ELSE "raw",
         Component |-> IF known
                       THEN {mapping(componentsOpt)[Value(schema)]}
                       ELSE {},
         Skeleton |-> IF skeletonGiven
                      THEN {[isLoaded |-> fetchedOpt # {}]}
                      ELSE {}]

\* The dependencies of the effect: [fetch?.id, fetch?.key, content, groups]
deps(fetchOpt, contentOpt, grps) ==
    <<UNION {d.id : d \in fetchOpt}, UNION {d.key : d \in fetchOpt},
      contentOpt, grps>>

\* The body of the effect in the run numbered run: the fetch is sent when a
\* descriptor is given, else the content prop replaces a differing state.
effect(fetchOpt, contentOpt, fetchedOpt, sent, run) ==
    IF Truthy(fetchOpt)
    THEN [fetchedContent |-> fetchedOpt,
          inflight |-> sent \cup {[run |-> run, descriptor |-> Value(fetchOpt)]}]
    ELSE IF contentOpt # fetchedOpt
    THEN [fetchedContent |-> contentOpt, inflight |-> sent]
    ELSE [fetchedContent |-> fetchedOpt, inflight |-> sent]

\* The continuation of fetchCont without the test of active.
afterFetch_NoActiveTest(isActive, fetchedOpt, response) ==
    response

\* if (active) { setFetchedContent(data.pop()) }
afterFetch(isActive, fetchedOpt, response) ==
    IF isActive THEN response ELSE fetchedOpt

\* The wrapper is mounted: useState(content), the first render, and the
\* first run of the effect.
WrapperInit ==
    /\ fetch \in {{}} \cup {{d} : d \in Descriptors}
    /\ content \in {{}} \cup {{c} : c \in PropContents}
    /\ components \in {{}} \cup {{r} : r \in CallerRegistries}
    /\ skeleton \in BOOLEAN
    /\ groups = 0
    /\ mounted = TRUE
    /\ effectRun = 1
    /\ active = {1}
    /\ fetchedContent = effect(fetch, content, content, {}, 1).fetchedContent
    /\ inflight = effect(fetch, content, content, {}, 1).inflight
    /\ rendered = {render(components, skeleton, fetchedContent)}
    /\ ListIdle /\ FilterIdle /\ WishlistIdle /\ PropsIdle /\ ImportIdle
    /\ SnapIdle

\* The parent renders the wrapper with other props (or the context with
\* other groups). When a dependency of the effect differs, the cleanup of
\* the last run clears its active and the effect runs again.
propsChange ==
    /\ mounted
    /\ \E newFetch \in {{}} \cup {{d} : d \in Descriptors},
          newContent \in {{}} \cup {{c} : c \in PropContents},
          newComponents \in {{}} \cup {{r} : r \in CallerRegistries},
          newGroups \in 0..1 :
           /\ <<newFetch, newContent, newComponents, newGroups>>
                  # <<fetch, content, components, groups>>
           /\ fetch' = newFetch
           /\ content' = newContent
           /\ components' = newComponents
           /\ groups' = newGroups
           /\ IF deps(newFetch, newContent, newGroups)
                     # deps(fetch, content, groups)
              THEN LET e == effect(newFetch, newContent, fetchedContent,
                                   inflight, effectRun + 1)
                   IN  /\ effectRun < MaxRuns
                       /\ effectRun' = effectRun + 1
                       /\ active' = {effectRun + 1}
                       /\ fetchedContent' = e.fetchedContent
                       /\ inflight' = e.inflight
              ELSE UNCHANGED <<effectRun, active, fetchedContent, inflight>>
           /\ rendered' = {render(newComponents, skeleton, fetchedContent')}
    /\ UNCHANGED <<skeleton, mounted>>
    /\ UNCHANGED <<listVars, filterVars, wishlistVars, propsVars, importVars>>
    /\ UNCHANGED snapVars

\* The response to a fetch arrives and fetchCont runs on.
responseArrives ==
    /\ \E f \in inflight :
           /\ inflight' = inflight \ {f}
           /\ fetchedContent' = afterFetch(f.run \in active, fetchedContent,
                                           Response(f))
    /\ rendered' = IF mounted
                   THEN {render(components, skeleton, fetchedContent')}
                   ELSE rendered
    /\ UNCHANGED <<fetch, content, components, skeleton, groups, mounted,
                   effectRun, active>>
    /\ UNCHANGED <<listVars, filterVars, wishlistVars, propsVars, importVars>>
    /\ UNCHANGED snapVars

\* The wrapper is unmounted: the cleanup of the last run clears its active.
unmount ==
    /\ mounted
    /\ mounted' = FALSE
    /\ active' = {}
    /\ rendered' = {}
    /\ UNCHANGED <<fetch, content, components, skeleton, groups,
                   fetchedContent, inflight, effectRun>>
    /\ UNCHANGED <<listVars, filterVars, wishlistVars, propsVars, importVars>>
    /\ UNCHANGED snapVars

WrapperNext ==
    \/ propsChange
    \/ responseArrives
    \/ unmount

SpecWrapper ==
    WrapperInit /\ [][WrapperNext]_vars

\* ------------------------------------------------------------------------
\* ProductList: the offset-snapping effect
\* ------------------------------------------------------------------------

MaxOffset == 4

\* The props getProps hands the component: the object {} without a total
\* and without slots for /search without a query, a search response with
\* its total otherwise. Of the response this part keeps the total.
SnapProps ==
    {[productSearchResult |-> <<>>, ampSlots |-> {}]}
        \cup {[productSearchResult |-> [total |-> t], ampSlots |-> slotsOpt] :
                  t \in 0..MaxTotal,
                  slotsOpt \in {{}} \cup {{l} : l \in SlotLists}}

\* const {total} = productSearchResult || {}: undefined without the field.
totalOf(psr) ==
    IF "total" \in DOMAIN psr THEN {psr.total} ELSE {}

\* useMemo(calculatePageOffsets(searchParams.limit, total, ampSlots,
\* isMobile)). With total undefined the last fillPages compares
\* pages.length with NaN and pushes nothing.
pageOffsetsOf(pageSize, totalOpt, slotsOpt, mobile) ==
    IF Truthy(totalOpt)
    THEN calculatePageOffsets(pageSize, Value(totalOpt), slotsOpt, mobile)
    ELSE IF Truthy(slotsOpt)
         THEN walkSlots([pages |-> <<>>, processed |-> 0, offset |-> 0],
                        Value(slotsOpt), 1, pageSize, mobile).pages
         ELSE <<>>

\* Math.abs
abs(n) ==
    IF n < 0 THEN -n ELSE n

RECURSIVE nearestPage(_, _, _, _, _)
\* The loop of the effect: dist is {} for Infinity; the first index with the
\* smallest distance stays, pageId is 0 when the loop never runs.
nearestPage(pages, offset, i, dist, pageId) ==
    IF i < Len(pages)
    THEN LET myDist == abs(pages[i + 1] - offset)
         IN  IF dist = {} \/ myDist < Value(dist)
             THEN nearestPage(pages, offset, i + 1, {myDist}, i)
             ELSE nearestPage(pages, offset, i + 1, dist, pageId)
    ELSE pageId

\* pageOffsets[pageId], undefined ({}) beyond the end of the table.
entryAt(pages, pageId) ==
    IF pageId < Len(pages) THEN {pages[pageId + 1]} ELSE {}

\* The page is mounted at a URL with some offset; the effect runs after the
\* first commit.
SnapInit ==
    /\ limit \in 1..MaxLimit
    /\ isMobile \in BOOLEAN
    /\ \E props \in SnapProps :
           /\ productSearchResult = props.productSearchResult
           /\ ampSlots = props.ampSlots
           /\ pageOffsets = pageOffsetsOf(limit, totalOf(props.productSearchResult),
                                          props.ampSlots, isMobile)
    /\ results = {}
    /\ \E offset \in 0..MaxOffset :
           searchParams = [offset |-> offset, limit |-> limit, refine |-> <<>>]
    /\ navigated = {}
    /\ toggled = {}
    /\ effectDue = TRUE
    /\ snapRuns = <<>>
    /\ WishlistIdle /\ PropsIdle /\ ImportIdle /\ WrapperIdle

\* The effect with dependencies [isMobile, searchParams.offset]. When the
\* nearest entry is not the offset it navigates to the URL with that entry
\* as offset; the location's offset changes and the effect is due again.
\* An empty table gives the entry undefined: the URL navigated to carries
\* no offset, and what the search-params hook reads from it is outside this
\* component, so the run is followed no further.
snapEffect ==
    LET pageId == nearestPage(pageOffsets, searchParams.offset, 0, {}, 0)
        entry == entryAt(pageOffsets, pageId)
        navigates == entry # {searchParams.offset}
        run == [offset |-> searchParams.offset, pageOffsets |-> pageOffsets,
                navigate |-> IF navigates THEN {entry} ELSE {}]
    IN  /\ effectDue
        /\ snapRuns' = Append(snapRuns, run)
        /\ IF navigates
           THEN /\ navigated' = {[offset |-> entry, limit |-> searchParams.limit,
                                  refine |-> searchParams.refine]}
                /\ IF Truthy(entry)
                   THEN /\ searchParams' =
                               [searchParams EXCEPT !.offset = Value(entry)]
                        /\ effectDue' = TRUE
                   ELSE /\ effectDue' = FALSE
                        /\ UNCHANGED searchParams
           ELSE /\ effectDue' = FALSE
                /\ UNCHANGED <<searchParams, navigated>>
        /\ UNCHANGED <<listVars, toggled>>
        /\ UNCHANGED <<wishlistVars, propsVars, importVars, wrapperVars>>

\* The visitor follows a link of the same search with another offset; the
\* response of the new offset has the same total.
paginate ==
    \E offset \in 0..MaxOffset :
        /\ ~effectDue
        /\ offset # searchParams.offset
        /\ searchParams' = [searchParams EXCEPT !.offset = offset]
        /\ effectDue' = TRUE
        /\ snapRuns' = <<>>
        /\ UNCHANGED <<listVars, navigated, toggled>>
        /\ UNCHANGED <<wishlistVars, propsVars, importVars, wrapperVars>>

\* The viewport crosses the md breakpoint: isMobile flips, useMemo computes
\* the table again, the effect is due.
breakpointSnap ==
    /\ ~effectDue
    /\ isMobile' = ~isMobile
    /\ pageOffsets' = pageOffsetsOf(limit, totalOf(productSearchResult),
                                    ampSlots, ~isMobile)
    /\ effectDue' = TRUE
    /\ snapRuns' = <<>>
    /\ UNCHANGED <<limit, productSearchResult, ampSlots, results>>
    /\ UNCHANGED filterVars
    /\ UNCHANGED <<wishlistVars, propsVars, importVars, wrapperVars>>

SnapNext ==
    \/ snapEffect
    \/ paginate
    \/ breakpointSnap

SpecSnap ==
    SnapInit /\ [][SnapNext]_vars

\* ------------------------------------------------------------------------
\* Vocabulary of the properties
\* ------------------------------------------------------------------------

SlotList ==
    IF Truthy(ampSlots) THEN Value(ampSlots) ELSE <<>>

Sorted(slots) ==
    \A i \in 1..(Len(slots) - 1) : slots[i].position <= slots[i + 1].position

total ==
    productSearchResult.total

fetchOffset ==
    productSearchResult.offset

IsSlot(item) ==
    item.isAmplience

IsHit(item) ==
    ~item.isAmplience

\* Grid cells an element of the rendered sequence occupies.
OccupiedCells(item) ==
    IF IsSlot(item) THEN (IF isMobile THEN 1 ELSE item.rows * item.cols) ELSE 1

RECURSIVE SumCells(_, _)
\* Cells occupied by the first n elements of items.
SumCells(items, n) ==
    IF n = 0 THEN 0 ELSE SumCells(items, n - 1) + OccupiedCells(items[n])

\* The slots enrichResults splices into rendered page k (0-based).
SplicedInto(k) ==
    placeSlots([items |-> <<>>, reservedSpaces |-> 0, slots |-> SlotList],
               1, k * limit, limit, isMobile).items

CeilDiv(a, b) ==
    (a + b - 1) \div b

\* R: the occupied-cell counts of all slots.
ReservedCells ==
    SumCells([i \in 1..Len(SlotList) |-> markSlot(SlotList[i])], Len(SlotList))

\* The slot list with every slot at rows = cols = 1.
UnitSpan(slotsOpt) ==
    {[i \in 1..Len(l) |-> [l[i] EXCEPT !.rows = 1, !.cols = 1]] : l \in slotsOpt}

\* A rendered sequence with the spans of its slots blanked.
Flat(itemsOpt) ==
    {[i \in 1..Len(s) |->
         IF IsSlot(s[i]) THEN [s[i] EXCEPT !.rows = 1, !.cols = 1] ELSE s[i]] :
     s \in itemsOpt}

\* The slot list without the marks enrichResults leaves on it.
Unmarked(slotsOpt) ==
    {[i \in 1..Len(l) |-> [l[i] EXCEPT !.isAmplience = FALSE]] : l \in slotsOpt}

\* The import steps by the names the command's documentation gives them.
ImportSteps ==
    <<"configure", "settings", "schemas", "types", "content", "slots", "events">>

StepOf(command) ==
    CASE command.tool = "configure" -> "configure"
      [] command.tool = "settings import" -> "settings"
      [] command.tool = "content-type-schema import" -> "schemas"
      [] command.tool = "content-type import" -> "types"
      [] command.tool = "content-item import"
             /\ command.path[2] = "content/content" -> "content"
      [] command.tool = "content-item import"
             /\ command.path[2] = "content/slots" -> "slots"
      [] command.tool = "event import" -> "events"
      [] OTHER -> "unknown"

IssuedSteps ==
    [i \in 1..Len(issued) |-> StepOf(issued[i].command)]

Printed(line) ==
    \E i \in 1..Len(stdout) : stdout[i] = line

\* An external call has ended with a non-zero status.
Failed ==
    \E i \in 1..Len(issued) : issued[i].status \notin {{}, {0}}

Exited ==
    process \in {"exit 0", "exit 1"}

\* The category lookup has answered with a record whose type ends in
\* category-not-found.
AnsweredNotFound ==
    \E c \in category :
        c.type # <<>> /\ c.type[Len(c.type)] = "category-not-found"

\* The requests the specification says are issued together.
Joint ==
    {"ampCategory", "getCategory", "productSearch"}

Completed(f, r) ==
    f[r] \in {"resolved", "rejected"}

\* The _meta.schema of the wrapper's current content, if any.
DisplayedSchema ==
    UNION {c.schema : c \in fetchedContent}

\* The entry of the effective registry for a schema: the caller's when the
\* components prop has one, else the built-in one, else none.
EffectiveEntry(schema) ==
    IF \E r \in components : schema \in DOMAIN r
    THEN {r[schema] : r \in components}
    ELSE IF schema \in DOMAIN componentsMapping
    THEN {componentsMapping[schema]}
    ELSE {}

\* The effect run that sent fetch f is still the current one.
Current(f) ==
    mounted /\ f.run = effectRun

\* The reference walk of the page-offset calculator's description: boundaries
\* are filled up to a count with the shift accumulated so far, boundary k
\* (from 0) being k * pageSize - shift.
ReferenceFill(pages, upTo, shift) ==
    LET n == Max(Len(pages), ((upTo + shift) \div limit) + 1)
    IN  [k \in 1..n |-> IF k <= Len(pages) THEN pages[k]
                        ELSE (k - 1) * limit - shift]

\* Cells a slot occupies on the current viewport.
Cells(slot) ==
    IF isMobile THEN 1 ELSE slot.rows * slot.cols

RECURSIVE ReferenceWalk(_, _, _, _, _)
\* Slots from the i-th on, in list order: fill up to the slot's position,
\* then add the slot's cells less `less` to the shift and, when `again`, fill
\* up to the slot's position once more with the new shift; after the last
\* slot fill up to the total.
ReferenceWalk(pages, shift, i, less, again) ==
    IF i > Len(SlotList)
    THEN ReferenceFill(pages, total, shift)
    ELSE LET position == SlotList[i].position
             before == ReferenceFill(pages, position, shift)
             shifted == shift + Cells(SlotList[i]) - less
         IN  ReferenceWalk(IF again
                           THEN ReferenceFill(before, position, shifted)
                           ELSE before,
                           shifted, i + 1, less, again)

\* The response of a search at table entry k (from 0): the at most pageSize
\* products from that offset on; no hits for an offset that is no product
\* offset.
FetchedAt(k) ==
    LET offset == pageOffsets[k + 1]
    IN  [offset |-> offset, total |-> total,
         hits |-> IF offset \in 0..total
                  THEN {Hits(offset, Min(limit, total - offset))}
                  ELSE {}]

\* The product items of the sequence enrichResults returns for entry k.
ProductsOfPage(k) ==
    LET out == enrichResults(FetchedAt(k), limit, ampSlots, pageOffsets,
                             isMobile).items
    IN  IF Truthy(out) THEN SelectSeq(Value(out), IsHit) ELSE <<>>

RECURSIVE ProductsUpTo(_)
\* The product items of entries 0 .. k - 1, concatenated in page order.
ProductsUpTo(k) ==
    IF k = 0 THEN <<>> ELSE ProductsUpTo(k - 1) \o ProductsOfPage(k - 1)

\* The products of the handler calls made so far, in flight or finished.
CalledProducts ==
    {m.productId : m \in mutations} \cup
        {settled[i].productId : i \in 1..Len(settled)}

\* The products whose mutation is in flight.
InFlightProducts ==
    {m.productId : m \in mutations}

\* The ids wishlistLoading holds.
LoadingProducts ==
    {wishlistLoading[i] : i \in 1..Len(wishlistLoading)}

\* The entries of a page-offset table.
Entries(pages) ==
    {pages[k] : k \in 1..Len(pages)}

\* The entry nearest to the offset, of the lowest page index among the
\* equally near ones; the table is not empty.
NearestEntry(pages, offset) ==
    LET Dist(k) == IF pages[k] < offset THEN offset - pages[k]
                   ELSE pages[k] - offset
        k == CHOOSE i \in 1..Len(pages) :
                 /\ \A j \in 1..Len(pages) : Dist(i) <= Dist(j)
                 /\ \A j \in 1..(i - 1) : Dist(j) > Dist(i)
    IN  pages[k]

\* The runs of the effect that navigated.
Navigations ==
    {i \in 1..Len(snapRuns) : snapRuns[i].navigate # {}}

\* ------------------------------------------------------------------------
\* Properties
\* ------------------------------------------------------------------------

\* C1: for a slot list sorted by position, every rendered page k other than
\* the last fills exactly pageSize cells: the products sliced for it
\* (pages[k+1] - pages[k]) plus the occupied cells of the slots spliced into
\* it equal the page size.
C1_EveryPageFilled ==
    Sorted(SlotList) =>
        \A k \in 0..(Len(pageOffsets) - 2) :
            (pageOffsets[k + 2] - pageOffsets[k + 1])
                + SumCells(SplicedInto(k), Len(SplicedInto(k))) = limit

\* C2: for a slot list sorted by position the page-offset table is
\* non-decreasing.
C2_TableNonDecreasing ==
    Sorted(SlotList) =>
        \A k \in 1..(Len(pageOffsets) - 1) : pageOffsets[k] <= pageOffsets[k + 1]

\* C3: for a slot list sorted by position the table has
\* ceil((total + R) / pageSize) entries, R the cells reserved by all slots.
C3_TableLength ==
    Sorted(SlotList) =>
        Len(pageOffsets) = CeilDiv(total + ReservedCells, limit)

\* C4: enrichResults treats the fetched page as rendered page k, k the
\* largest index whose table entry does not exceed the fetch offset.
C4_LastEntryNotExceeding ==
    Truthy(productSearchResult.hits) =>
        LET k == pageIdOf(pageOffsets, fetchOffset)
        IN  /\ k \in 0..(Len(pageOffsets) - 1)
            /\ pageOffsets[k + 1] <= fetchOffset
            /\ \A j \in (k + 1)..(Len(pageOffsets) - 1) :
                   pageOffsets[j + 1] > fetchOffset

\* C5: for a sorted slot list the sequence of rendered page k holds exactly
\* the slots with k*pageSize <= position < (k+1)*pageSize, in list order,
\* each preceded by elements occupying position - k*pageSize cells, and the
\* hits in their original order.
C5_SlotsAtTheirCells ==
    (Sorted(SlotList) /\ Truthy(results)) =>
        LET items == Value(results)
            k == pageIdOf(pageOffsets, fetchOffset)
            InPage(slot) == k * limit <= slot.position
                               /\ slot.position < (k + 1) * limit
            expected == SelectSeq(SlotList, InPage)
            hits == SelectSeq(items, IsHit)
        IN  /\ SelectSeq(items, IsSlot)
                   = [i \in 1..Len(expected) |-> markSlot(expected[i])]
            /\ \A j \in 1..Len(items) :
                   IsSlot(items[j]) =>
                       SumCells(items, j - 1) = items[j].position - k * limit
            /\ hits = SubSeq(Value(productSearchResult.hits), 1, Len(hits))

\* C6: with an empty or absent slot list and a fetch offset in [0, total),
\* the hits of the response (at most pageSize of them) are returned
\* unchanged: same elements, same order.
C6_HitsUnchanged ==
    (SlotList = <<>> /\ Truthy(productSearchResult.hits) /\ fetchOffset < total)
        => /\ Len(Value(productSearchResult.hits)) <= limit
           /\ results = productSearchResult.hits

\* Hits of the last, partly filled page come back unchanged.
C6_Witness ==
    /\ SlotList = <<>>
    /\ fetchOffset > 0
    /\ Truthy(productSearchResult.hits)
    /\ Len(Value(productSearchResult.hits)) = total - fetchOffset
    /\ total - fetchOffset >= 1
    /\ total - fetchOffset < limit
    /\ results = productSearchResult.hits

\* C7: with a slot at position 0 and fetch offset 0, the first element of
\* the returned sequence is a slot at position 0 marked isAmplience.
C7_SlotZeroFirst ==
    (Truthy(results) /\ fetchOffset = 0
         /\ \E i \in 1..Len(SlotList) : SlotList[i].position = 0)
        => /\ Value(results) # <<>>
           /\ IsSlot(Value(results)[1])
           /\ Value(results)[1].position = 0

\* C8: with an empty or absent slot list entry k of the table is k*pageSize.
C8_UniformPages ==
    SlotList = <<>> =>
        \A k \in 0..(Len(pageOffsets) - 1) : pageOffsets[k + 1] = k * limit

\* An absent slot list and a table of at least three pages.
C8_Witness ==
    /\ ampSlots = {}
    /\ Len(pageOffsets) >= 3
    /\ pageOffsets[3] = 2 * limit

\* C9: on mobile the table and the rendered sequence are those of the same
\* slot list with every slot at rows = cols = 1.
C9_MobileIgnoresSpan ==
    isMobile =>
        LET unit == UnitSpan(ampSlots)
            pages == calculatePageOffsets(limit, total, unit, TRUE)
        IN  /\ pageOffsets = pages
            /\ Flat(results)
                   = Flat(enrichResults(productSearchResult, limit, unit,
                                        pages, TRUE).items)

\* On mobile a slot spanning more than one cell is rendered among products.
C9_Witness ==
    /\ isMobile
    /\ Truthy(results)
    /\ Len(pageOffsets) >= 2
    /\ \E j \in 1..Len(Value(results)) :
           /\ IsSlot(Value(results)[j])
           /\ Value(results)[j].rows * Value(results)[j].cols > 1
    /\ \E j \in 1..Len(Value(results)) : IsHit(Value(results)[j])

\* C10: calling calculatePageOffsets again with the inputs of the stored
\* table, on the slot list as the enrichResults calls since then have left
\* it, returns the stored table; and no call changes the position, rows or
\* cols of a slot.
C10_Deterministic ==
    /\ [](pageOffsets = calculatePageOffsets(limit, total, ampSlots, isMobile))
    /\ [][Unmarked(ampSlots') = Unmarked(ampSlots)]_vars

\* enrichResults has marked a multi-cell slot since the table was computed,
\* and the table depends on that slot's span.
C10_Witness ==
    /\ ~isMobile
    /\ \E i \in 1..Len(SlotList) :
           SlotList[i].isAmplience /\ SlotList[i].rows * SlotList[i].cols > 1
    /\ pageOffsets = calculatePageOffsets(limit, total, ampSlots, isMobile)
    /\ pageOffsets # calculatePageOffsets(limit, total, UnitSpan(ampSlots), isMobile)

\* C11: toggleFilter with selected = false and allowMultiple = false on an
\* attribute that already holds a value navigates to search parameters in
\* which refine[attributeId] is exactly the single new value, and every
\* other refinement attribute is as the call found it.
C11_SingleSelectReplaces ==
    \A t \in toggled :
        (~t.allowMultiple /\ ~t.selected /\ Truthy(t.before[t.attributeId])) =>
            /\ navigated # {}
            /\ \A n \in navigated :
                   /\ n.refine[t.attributeId] = {StringOf(<<t.value>>)}
                   /\ \A a \in RefineAttributes \ {t.attributeId} :
                          n.refine[a] = t.before[a]

\* A single-select toggle has replaced two values of another kind while the
\* other attribute holds a value.
C11_Witness ==
    \E t \in toggled, n \in navigated :
        /\ ~t.allowMultiple
        /\ ~t.selected
        /\ Truthy(t.before[t.attributeId])
        /\ Len(Value(t.before[t.attributeId]).parts) = 2
        /\ Value(t.before[t.attributeId]).parts[1] # t.value
        /\ n.refine[t.attributeId] = {StringOf(<<t.value>>)}
        /\ \E a \in RefineAttributes \ {t.attributeId} : Truthy(n.refine[a])

\* C12: in every run of the import command the external calls are issued in
\* the order configure, settings, schemas, types, content, slots, events:
\* what has been issued is a prefix of that order (none skipped, reordered or
\* run twice), each call but the last issued has returned with status 0, and
\* the run that prints done! has issued them all.
C12_FixedOrder ==
    /\ Len(issued) <= Len(ImportSteps)
    /\ IssuedSteps = SubSeq(ImportSteps, 1, Len(issued))
    /\ \A i \in 1..(Len(issued) - 1) : issued[i].status = {0}
    /\ process = "blocked" <=>
           (issued # <<>> /\ issued[Len(issued)].status = {})
    /\ Printed("done!") =>
           /\ Len(issued) = Len(ImportSteps)
           /\ \A i \in 1..Len(issued) : issued[i].status = {0}

\* A complete run with different repositories for content and slots.
C12_Witness ==
    /\ Printed("done!")
    /\ IssuedSteps = ImportSteps
    /\ context.contentRepoId # context.slotsRepoId
    /\ issued[5].command.baseRepo = context.contentRepoId
    /\ issued[6].command.baseRepo = context.slotsRepoId

\* C13: once an external call of the import command has exited non-zero, no
\* further call is issued (the failed call is the last one and none is
\* retried), done! is never printed, the handler is not running any more,
\* and the process terminates.
C13_FailureStops ==
    /\ [](Failed =>
             /\ process \in {"rejected", "exit 0", "exit 1"}
             /\ ~Printed("done!")
             /\ issued[Len(issued)].status \notin {{}, {0}}
             /\ \A i \in 1..(Len(issued) - 1) : issued[i].status = {0})
    /\ [][Failed => issued' = issued]_vars
    /\ (Failed ~> Exited)

\* The import of content has failed after four successful calls and the
\* process has ended.
C13_Witness ==
    /\ Failed
    /\ Exited
    /\ step = 4
    /\ Len(issued) = 5
    /\ ~Printed("done!")

\* C14: a handler call whose wishlist mutation rejected has emitted exactly
\* one error notification and no success notification and has returned
\* without passing the rejection on; a call whose mutation resolved has
\* emitted exactly one success notification and no error notification.
C14_OneNotification ==
    \A i \in 1..Len(settled) :
        LET c == settled[i]
            Emitted(status) ==
                Cardinality({j \in 1..Len(toasts) :
                                 toasts[j].call = c.call
                                     /\ toasts[j].status = status})
        IN  /\ c.mutation = "rejected" =>
                   /\ Emitted("error") = 1
                   /\ Emitted("success") = 0
                   /\ c.ended = "returned"
            /\ c.mutation = "resolved" =>
                   /\ Emitted("success") = 1
                   /\ Emitted("error") = 0

\* A createListItem that rejected and a removeListItemByProductId that
\* resolved, each with its notification.
C14_Witness ==
    /\ \E i \in 1..Len(settled) :
           /\ settled[i].handler = "addItemToWishlist"
           /\ settled[i].mutation = "rejected"
           /\ \E j \in 1..Len(toasts) :
                  toasts[j].call = settled[i].call /\ toasts[j].status = "error"
    /\ \E i \in 1..Len(settled) :
           /\ settled[i].handler = "removeItemFromWishlist"
           /\ settled[i].mutation = "resolved"
           /\ \E j \in 1..Len(toasts) :
                  toasts[j].call = settled[i].call
                      /\ toasts[j].status = "success"

\* C15 as stated: getProps ends with a thrown HTTPNotFound exactly when the
\* category lookup has answered with a record whose type ends in
\* category-not-found; for a search request the category lookup is not
\* issued and HTTPNotFound is never thrown.
C15_NotFoundExactly ==
    /\ propsPc = "ended" => (outcome = {"HTTPNotFound"} <=> AnsweredNotFound)
    /\ request.isSearch =>
           /\ fetches["getCategory"] = "idle"
           /\ outcome # {"HTTPNotFound"}

\* C15 as amended: getProps ends with a thrown HTTPNotFound exactly when the
\* category lookup has answered with a record whose type ends in
\* category-not-found and the product search has answered too; for a search
\* request the category lookup is not issued and HTTPNotFound is never
\* thrown.
C15_NotFoundWhenSearchAnswers ==
    /\ propsPc = "ended" =>
           (outcome = {"HTTPNotFound"} <=>
                (AnsweredNotFound /\ fetches["productSearch"] = "resolved"))
    /\ request.isSearch =>
           /\ fetches["getCategory"] = "idle"
           /\ outcome # {"HTTPNotFound"}

\* A category page whose lookup answered category-not-found before the
\* product search answered.
C15_Witness ==
    /\ propsPc = "ended"
    /\ ~request.isSearch
    /\ AnsweredNotFound
    /\ fetches["productSearch"] = "resolved"
    /\ outcome = {"HTTPNotFound"}

\* C16: the category lookup, the product search and the CMS fetch of the
\* category are issued together: no step issues one of them once another of
\* them has completed.
C16_IssuedTogether ==
    [][\A r \in Joint :
           (fetches[r] = "idle" /\ fetches'[r] # "idle") =>
               \A q \in Joint : ~Completed(fetches', q)]_vars

C18_LatestFetchWins ==
    /\ [][\A f \in inflight :
              inflight' = inflight \ {f} =>
                  fetchedContent' = IF Current(f) THEN Response(f)
                                    ELSE fetchedContent]_vars
    /\ []((mounted /\ inflight = {} /\ fetch # {}) =>
              fetchedContent = Response([run |-> effectRun,
                                         descriptor |-> Value(fetch)]))

\* The response to the latest fetch is displayed while the response to a
\* superseded fetch of another descriptor is still to arrive.
C18_Witness ==
    /\ mounted
    /\ fetch # {}
    /\ fetchedContent # {}
    /\ fetchedContent = Response([run |-> effectRun, descriptor |-> Value(fetch)])
    /\ \E f \in inflight :
           /\ f.run < effectRun
           /\ f.descriptor # Value(fetch)
           /\ Response(f) # {}

\* C19 as stated: the table is that of the reference walk in which each
\* slot, after the fill up to its position, adds its occupied-cell count
\* minus one to the shift.
C19_ReferenceWalkLessOne ==
    pageOffsets = ReferenceWalk(<<>>, 0, 1, 1, FALSE)

\* C19 as amended: the table is that of the reference walk in which each
\* slot, after the fill up to its position, adds its occupied-cell count to
\* the shift and boundaries are filled up to its position again with the
\* new shift.
C19_ReferenceWalk ==
    pageOffsets = ReferenceWalk(<<>>, 0, 1, 0, TRUE)

\* Two slots on desktop, one of two cells, the second beyond the products:
\* a table the walk as stated does not give, and that the second fill after
\* a slot adds a boundary to.
C19_Witness ==
    /\ ~isMobile
    /\ Len(SlotList) = 2
    /\ \E i \in 1..2 : Cells(SlotList[i]) = 2
    /\ SlotList[2].position > total
    /\ total > 0
    /\ pageOffsets = ReferenceWalk(<<>>, 0, 1, 0, TRUE)
    /\ pageOffsets # ReferenceWalk(<<>>, 0, 1, 0, FALSE)
    /\ pageOffsets # ReferenceWalk(<<>>, 0, 1, 1, FALSE)

\* C20: for a slot list sorted by position, the product items of the
\* sequences enrichResults returns for the fetches at the entries of the
\* table, concatenated in page order, are products 0 .. total - 1 in order,
\* none omitted and none repeated.
C20_EveryProductOnce ==
    Sorted(SlotList) => ProductsUpTo(Len(pageOffsets)) = Hits(0, total)

\* C21: every entry of the page-offset table is a valid product offset: the
\* first entry is 0 and every entry e satisfies 0 <= e <= total, for every
\* slot list with positions >= 0, page size >= 1 and either viewport.
C21_EntriesAreOffsets ==
    /\ pageOffsets[1] = 0
    /\ \A k \in 1..Len(pageOffsets) :
           0 <= pageOffsets[k] /\ pageOffsets[k] <= total

\* C22: with every handler call made so far on a different product, the id
\* of each product whose mutation is in flight is in wishlistLoading, and
\* once no mutation is in flight wishlistLoading is empty.
C22_LoadingTracksInFlight ==
    Cardinality(CalledProducts) = Started =>
        /\ InFlightProducts \subseteq LoadingProducts
        /\ mutations = {} => wishlistLoading = <<>>

\* C23: toggleFilter leaves the component's searchParams object as it found
\* it, for every value, attribute, selected flag and allowMultiple flag: the
\* offset, the limit, the refine map and the values inside it are the same
\* after the call as before it.
C23_SearchParamsUntouched ==
    [][toggleFilter => searchParams' = searchParams]_vars

\* C24: a run of the offset-snapping effect with an offset that is not an
\* entry of the table navigates to the entry nearest to the offset (the
\* lowest page index among equally near entries), a run with an offset that
\* is an entry does not navigate, and of the runs that follow one another
\* with the table unchanged at most one navigates.
C24_SnapsInOneStep ==
    /\ \A i \in 1..Len(snapRuns) :
           LET run == snapRuns[i]
           IN  IF run.offset \in Entries(run.pageOffsets)
               THEN run.navigate = {}
               ELSE /\ run.pageOffsets # <<>>
                    /\ run.navigate =
                           {{NearestEntry(run.pageOffsets, run.offset)}}
    /\ Cardinality(Navigations) <= 1

====
